---- MODULE Spec2Model ----
(***************************************************************************)
(* Model of graph/options/options.go: NewOptions resolves one graph        *)
(* request (path variables, query parameters, caller token) into an        *)
(* Options descriptor; parseAppenders assembles the appender pipeline;     *)
(* resolveNamespaceDuration clamps the lookback window to the namespace's  *)
(* age; GetGraphKind classifies the descriptor.                            *)
(*                                                                         *)
(* Text.  A comma-separated parameter (namespaces, appenders) is a         *)
(* sequence of lexemes: a word, the blank " " or the comma ",".  The empty *)
(* string is << >>.  strings.Split and strings.TrimSpace work on that      *)
(* sequence; Join turns a token back into a Go string.  Every other        *)
(* parameter is a plain string, "" when absent.                            *)
(*                                                                         *)
(* Time.  Instants and durations are integers in one unit (minutes);       *)
(* every instant of the model is far inside the range time.Duration can    *)
(* represent, so time.Time.Sub is exact subtraction.                       *)
(***************************************************************************)
EXTENDS Integers, Sequences, FiniteSets, TLC

VARIABLES
    req,                  \* the request: path variables, query parameters, context token
    gateway,              \* what the namespace gateway answers for this caller
    pc,                   \* position in NewOptions
    duration,             \* local duration
    graphType,            \* local graphType
    groupBy,              \* local groupBy
    includeIstio,         \* local includeIstio
    injectServiceNodes,   \* local injectServiceNodes
    queryTime,            \* local queryTime
    vendor,               \* local vendor
    token,                \* local token
    accessibleNamespaces, \* local accessibleNamespaces
    namespaces,           \* local namespaces (the csl actually used)
    pending,              \* tokens of the range loop not yet visited
    namespaceMap,         \* local namespaceMap
    options,              \* the Options value built at line 193 (NoOptions before)
    result,               \* what NewOptions returned (NoOptions unless it returned)
    err,                  \* the panic that ended NewOptions (NoError if none)
    gatewayCalls          \* number of calls of getAccessibleNamespaces

vars == <<req, gateway, pc, duration, graphType, groupBy, includeIstio,
          injectServiceNodes, queryTime, vendor, token, accessibleNamespaces,
          namespaces, pending, namespaceMap, options, result, err, gatewayCalls>>

-----------------------------------------------------------------------------
(* Bounds of the model *)

\* the wall clock (time.Now) of the run, in minutes since the Unix epoch
Now == 20
\* longest appenders / namespaces text of the text-exhaustive specifications
MaxLen == 3
\* most inputs of a request that differ from a baseline request
MaxDeviations == 2
\* longest comma-separated list of appender names
MaxNames == 3
\* resolveNamespaceDuration is applied to instants at most MaxSpan minutes from Now
MaxSpan == 6

-----------------------------------------------------------------------------
(* Program constants *)

GroupByApp == "app"
GroupByNone == "none"
GroupByVersion == "version"
VendorCytoscape == "cytoscape"
defaultDuration == "10m"
GraphTypeApp == "app"
GraphTypeService == "service"
GraphTypeVersionedApp == "versionedApp"
GraphTypeWorkload == "workload"
defaultGraphType == GraphTypeWorkload
defaultGroupBy == GroupByNone
defaultIncludeIstio == FALSE
defaultInjectServiceNodes == FALSE
defaultVendor == VendorCytoscape
graphKindNamespace == "namespace"
graphKindNode == "node"

DeadNodeAppenderName == "deadNode"
ServiceEntryAppenderName == "serviceEntry"
IstioAppenderName == "istio"
ResponseTimeAppenderName == "responseTime"
SecurityPolicyAppenderName == "securityPolicy"
SidecarsCheckAppenderName == "sidecarsCheck"
UnusedNodeAppenderName == "unusedNode"

\* appender.DefaultQuantile (0.95), in thousandths
DefaultQuantile == 950

\* the Unix time of the zero time.Time (January 1, year 1), in minutes
ZeroTime == -1035593280

BadRequestCode == "BadRequest"
ForbiddenCode == "Forbidden"
InternalCode == "Internal"

NoError == [code |-> "none", message |-> "", arg |-> ""]
NoOptions == [set |-> FALSE]

-----------------------------------------------------------------------------
(* Library functions the code calls *)

Blank == " "
Comma == ","

\* strings.Split(s, ","): the maximal comma-free runs of s, in order; always
\* at least one token (Split("", ",") is [""]).
RECURSIVE Split(_)
Split(s) ==
    IF \A i \in 1..Len(s) : s[i] # Comma
    THEN <<s>>
    ELSE LET i == CHOOSE k \in 1..Len(s) :
                      s[k] = Comma /\ \A j \in 1..(k - 1) : s[j] # Comma
         IN  <<SubSeq(s, 1, i - 1)>> \o Split(SubSeq(s, i + 1, Len(s)))

\* strings.TrimSpace(s): s without its leading and trailing blanks.
RECURSIVE TrimSpace(_)
TrimSpace(s) ==
    IF s = << >> THEN s
    ELSE IF Head(s) = Blank THEN TrimSpace(Tail(s))
    ELSE IF s[Len(s)] = Blank THEN TrimSpace(SubSeq(s, 1, Len(s) - 1))
    ELSE s

\* The Go string a lexeme sequence spells.
RECURSIVE Join(_)
Join(s) == IF s = << >> THEN "" ELSE Head(s) \o Join(Tail(s))

\* model.ParseDuration: <digits><unit>; anything else is an error.
DurationTable ==
    [s \in {"3m", "5m", "10m", "1h"} |->
        CASE s = "3m" -> 3 [] s = "5m" -> 5 [] s = "10m" -> 10 [] s = "1h" -> 60]

ParseDuration(s) ==
    IF s \in DOMAIN DurationTable
    THEN [ok |-> TRUE, val |-> DurationTable[s]]
    ELSE [ok |-> FALSE, val |-> 0]

\* strconv.ParseBool: 1, t, T, TRUE, true, True, 0, f, F, FALSE, false, False.
ParseBool(s) ==
    IF s \in {"1", "t", "T", "TRUE", "true", "True"} THEN [ok |-> TRUE, val |-> TRUE]
    ELSE IF s \in {"0", "f", "F", "FALSE", "false", "False"} THEN [ok |-> TRUE, val |-> FALSE]
    ELSE [ok |-> FALSE, val |-> FALSE]

\* strconv.ParseInt(s, 10, 64) on the decimal texts of the model.
IntTable ==
    [s \in {"0", "17", "-5", "30", "017"} |->
        CASE s = "0" -> 0 [] s = "17" -> 17 [] s = "-5" -> -5 [] s = "30" -> 30
          [] s = "017" -> 17]

ParseInt(s) ==
    IF s \in DOMAIN IntTable
    THEN [ok |-> TRUE, val |-> IntTable[s]]
    ELSE [ok |-> FALSE, val |-> 0]

\* strconv.ParseFloat(s, 64) on the texts of the model, in thousandths.
FloatTable ==
    [s \in {"0.5", "0.50", "0.99"} |->
        CASE s = "0.5" -> 500 [] s = "0.50" -> 500 [] s = "0.99" -> 990]

ParseFloat(s) ==
    IF s \in DOMAIN FloatTable
    THEN [ok |-> TRUE, val |-> FloatTable[s]]
    ELSE [ok |-> FALSE, val |-> 0]

\* time.Time.IsZero
IsZero(t) == t = ZeroTime

\* map assignment m[k] = v
MapPut(m, k, v) == [x \in DOMAIN m \cup {k} |-> IF x = k THEN v ELSE m[x]]

EmptyMap == [x \in {} |-> 0]

-----------------------------------------------------------------------------
(* The graph package's error helpers.  graph.BadRequest, graph.Forbidden   *)
(* and graph.Error panic with a Response of the matching status;           *)
(* graph.CheckError panics when its argument is an error.  The panic ends  *)
(* NewOptions: nothing is returned.                                        *)

Panic(code, message, arg) ==
    /\ pc' = "panicked"
    /\ err' = [code |-> code, message |-> message, arg |-> arg]

Goto(label) ==
    /\ pc' = label
    /\ UNCHANGED err

-----------------------------------------------------------------------------
(* Pure functions of options.go *)

\* resolveNamespaceDuration taking now as the reference whatever queryTime is
resolveNamespaceDurationFromNow(nsCreationTime, requestedRange, qt) ==
    IF ~IsZero(nsCreationTime)
    THEN LET nsLifetime == Now - nsCreationTime
         IN  IF nsLifetime < requestedRange THEN nsLifetime ELSE requestedRange
    ELSE requestedRange

\* resolveNamespaceDuration (lines 351-369)
resolveNamespaceDuration(nsCreationTime, requestedRange, qt) ==
    IF ~IsZero(nsCreationTime)
    THEN LET referenceTime == IF qt # 0 THEN qt ELSE Now
             nsLifetime == referenceTime - nsCreationTime
         IN  IF nsLifetime < requestedRange THEN nsLifetime ELSE requestedRange
    ELSE requestedRange

\* Options.GetGraphKind (lines 221-230)
GetGraphKind(o) ==
    IF o.App # "" \/ o.Version # "" \/ o.Workload # "" \/ o.Service # ""
    THEN graphKindNode
    ELSE graphKindNamespace

\* the names the switch of parseAppenders recognizes (lines 238-251)
KnownAppenderNames ==
    {DeadNodeAppenderName, ServiceEntryAppenderName, IstioAppenderName,
     ResponseTimeAppenderName, SecurityPolicyAppenderName,
     SidecarsCheckAppenderName, UnusedNodeAppenderName}

\* the trimmed tokens of the appenders parameter, in order (lines 236-237)
AppenderTokens(params) ==
    LET toks == Split(params.appenders.value)
    IN  [i \in 1..Len(toks) |-> Join(TrimSpace(toks[i]))]

\* the switch without its default case: an unknown name is skipped
InvalidAppenderIgnored(name) == FALSE

\* a trimmed token the switch sends to its default case (lines 252-256)
InvalidAppender(name) == name # "" /\ name \notin KnownAppenderNames

\* requestedAppenders after the loop over the tokens (lines 233-257)
RequestedAppenders(params) ==
    LET toks == AppenderTokens(params)
    IN  {toks[i] : i \in 1..Len(toks)} \cap KnownAppenderNames

\* allAppenders decided by params.Get("appenders") == "" instead of the key's presence
AllAppendersWhenEmpty(params) ==
    ~params.appenders.present \/ params.appenders.value = << >>

\* allAppenders (lines 234-260)
AllAppenders(params) == ~params.appenders.present

\* "if _, ok := requestedAppenders[name]; ok || allAppenders"
Selected(params, name) == name \in RequestedAppenders(params) \/ AllAppenders(params)

\* the quantile taken from the parse result whether or not the parse succeeded
QuantileUnchecked(params) ==
    IF params.responseTimeQuantile.present
    THEN ParseFloat(params.responseTimeQuantile.value).val
    ELSE DefaultQuantile

\* quantile of the ResponseTime appender (lines 281-286)
Quantile(params) ==
    IF params.responseTimeQuantile.present
    THEN LET r == ParseFloat(params.responseTimeQuantile.value)
         IN  IF r.ok THEN r.val ELSE DefaultQuantile
    ELSE DefaultQuantile

ServiceEntryAppender(o) ==
    [name |-> ServiceEntryAppenderName, AccessibleNamespaces |-> o.AccessibleNamespaces]

DeadNodeAppender == [name |-> DeadNodeAppenderName]

ResponseTimeAppender(params, o) ==
    [name |-> ResponseTimeAppenderName, Quantile |-> Quantile(params),
     GraphType |-> o.GraphType, InjectServiceNodes |-> o.InjectServiceNodes,
     IncludeIstio |-> o.IncludeIstio, Namespaces |-> o.Namespaces,
     QueryTime |-> o.QueryTime]

SecurityPolicyAppender(o) ==
    [name |-> SecurityPolicyAppenderName, GraphType |-> o.GraphType,
     IncludeIstio |-> o.IncludeIstio, InjectServiceNodes |-> o.InjectServiceNodes,
     Namespaces |-> o.Namespaces, QueryTime |-> o.QueryTime]

\* hasNodeOptions without the service selector
hasNodeOptionsNoService(o) == o.App # "" \/ o.Workload # ""

\* hasNodeOptions (line 308)
hasNodeOptions(o) == o.App # "" \/ o.Workload # "" \/ o.Service # ""

UnusedNodeAppender(o) ==
    [name |-> UnusedNodeAppenderName, GraphType |-> o.GraphType,
     IsNodeGraph |-> hasNodeOptions(o)]

IstioAppender == [name |-> IstioAppenderName]

SidecarsCheckAppender == [name |-> SidecarsCheckAppenderName]

Emit(cond, a) == IF cond THEN <<a>> ELSE << >>

\* the appends with the dead node filter ahead of the service entry stage
AssembleAppendersDeadNodeFirst(params, o) ==
       Emit(Selected(params, DeadNodeAppenderName), DeadNodeAppender)
    \o Emit(Selected(params, ServiceEntryAppenderName), ServiceEntryAppender(o))
    \o Emit(Selected(params, ResponseTimeAppenderName), ResponseTimeAppender(params, o))
    \o Emit(Selected(params, SecurityPolicyAppenderName), SecurityPolicyAppender(o))
    \o Emit(Selected(params, UnusedNodeAppenderName), UnusedNodeAppender(o))
    \o Emit(Selected(params, IstioAppenderName), IstioAppender)
    \o Emit(Selected(params, SidecarsCheckAppenderName), SidecarsCheckAppender)

\* the appends of parseAppenders, in the order of the code (lines 268-324)
AssembleAppenders(params, o) ==
       Emit(Selected(params, ServiceEntryAppenderName), ServiceEntryAppender(o))
    \o Emit(Selected(params, DeadNodeAppenderName), DeadNodeAppender)
    \o Emit(Selected(params, ResponseTimeAppenderName), ResponseTimeAppender(params, o))
    \o Emit(Selected(params, SecurityPolicyAppenderName), SecurityPolicyAppender(o))
    \o Emit(Selected(params, UnusedNodeAppenderName), UnusedNodeAppender(o))
    \o Emit(Selected(params, IstioAppenderName), IstioAppender)
    \o Emit(Selected(params, SidecarsCheckAppenderName), SidecarsCheckAppender)

\* parseAppenders (lines 232-325): the first invalid token panics; else the
\* assembled pipeline.
parseAppenders(params, o) ==
    LET toks == AppenderTokens(params)
        bad  == {i \in 1..Len(toks) : InvalidAppender(toks[i])}
    IN  IF params.appenders.present /\ bad # {}
        THEN [ok |-> FALSE, appenders |-> << >>,
              invalid |-> toks[CHOOSE i \in bad : \A j \in bad : i <= j]]
        ELSE [ok |-> TRUE, appenders |-> AssembleAppenders(params, o), invalid |-> ""]

-----------------------------------------------------------------------------
(* NewOptions (lines 68-218), one action per statement group *)

\* line 103: a graphType outside the four graph types
InvalidGraphType(gt) ==
    /\ gt # GraphTypeApp
    /\ gt # GraphTypeService
    /\ gt # GraphTypeVersionedApp
    /\ gt # GraphTypeWorkload

\* the node graph check reading the service selector instead of app
NodeGraphTypeMismatchOnService(r, gt) ==
    r.service # "" /\ gt # GraphTypeApp /\ gt # GraphTypeVersionedApp

\* line 107: "app node graphs require an app graph type"
NodeGraphTypeMismatch(r, gt) ==
    r.app # "" /\ gt # GraphTypeApp /\ gt # GraphTypeVersionedApp

\* line 112
InvalidGroupBy(gb) == gb # GroupByApp /\ gb # GroupByNone /\ gb # GroupByVersion

\* line 144
InvalidVendor(v) == v # VendorCytoscape

\* the namespaces query parameter taking precedence over the path variable
RelevantNamespacesQueryFirst(r, ns) == IF ns # << >> THEN ns ELSE r.namespace

\* lines 168-170: the path variable, when set, is the only relevant namespace
RelevantNamespaces(r, ns) == IF r.namespace # << >> THEN r.namespace ELSE ns

\* NewOptions without the check of line 172
NoNamespaceUnchecked(ns) == FALSE

\* line 172
NoNamespace(ns) == ns = << >>

\* line 177: the trimmed token, as a Go string
NamespaceToken(tok) == Join(TrimSpace(tok))

\* line 178: creationTime, found := accessibleNamespaces[namespaceToken]
Found(acc, name) == name \in DOMAIN acc

\* the namespace entry with the requested duration, not clamped
NamespaceInfoUnclamped(acc, name, d, qt) == [Name |-> name, Duration |-> d]

\* lines 179-182
NamespaceInfo(acc, name, d, qt) ==
    [Name |-> name, Duration |-> resolveNamespaceDuration(acc[name], d, qt)]

\* NewOptions without the forcing of lines 189-191
ServiceInjectionNotForced(gt, isn) == isn

\* lines 189-191: service graphs require service injection
ServiceInjection(gt, isn) == IF gt = GraphTypeService THEN TRUE ELSE isn

\* lines 193-212
BuildOptions(r) ==
    [set |-> TRUE,
     AccessibleNamespaces |-> accessibleNamespaces,
     Appenders |-> << >>,
     IncludeIstio |-> includeIstio,
     InjectServiceNodes |-> ServiceInjection(graphType, injectServiceNodes),
     Namespaces |-> namespaceMap,
     Vendor |-> vendor,
     App |-> r.app,
     Namespace |-> Join(r.namespace),
     Service |-> r.service,
     Version |-> r.version,
     Workload |-> r.workload,
     Duration |-> duration,
     GraphType |-> graphType,
     GroupBy |-> groupBy,
     QueryTime |-> queryTime]

\* lines 92-100
ResolveDuration ==
    /\ pc = "duration"
    /\ IF req.duration = ""
       THEN duration' = ParseDuration(defaultDuration).val /\ Goto("graphType")
       ELSE LET r == ParseDuration(req.duration)
            IN  IF r.ok
                THEN duration' = r.val /\ Goto("graphType")
                ELSE /\ Panic(BadRequestCode, "Invalid duration", req.duration)
                     /\ UNCHANGED duration
    /\ UNCHANGED <<req, gateway, graphType, groupBy, includeIstio, injectServiceNodes,
                   queryTime, vendor, token, accessibleNamespaces, namespaces,
                   pending, namespaceMap, options, result, gatewayCalls>>

\* lines 101-105
ResolveGraphType ==
    /\ pc = "graphType"
    /\ IF graphType = ""
       THEN graphType' = defaultGraphType /\ Goto("nodeGraphType")
       ELSE IF InvalidGraphType(graphType)
            THEN /\ Panic(BadRequestCode, "Invalid graphType", graphType)
                 /\ UNCHANGED graphType
            ELSE UNCHANGED graphType /\ Goto("nodeGraphType")
    /\ UNCHANGED <<req, gateway, duration, groupBy, includeIstio, injectServiceNodes,
                   queryTime, vendor, token, accessibleNamespaces, namespaces,
                   pending, namespaceMap, options, result, gatewayCalls>>

\* lines 106-109
CheckNodeGraphType ==
    /\ pc = "nodeGraphType"
    /\ IF NodeGraphTypeMismatch(req, graphType)
       THEN Panic(BadRequestCode, "Invalid graphType for node graph", graphType)
       ELSE Goto("groupBy")
    /\ UNCHANGED <<req, gateway, duration, graphType, groupBy, includeIstio,
                   injectServiceNodes, queryTime, vendor, token, accessibleNamespaces,
                   namespaces, pending, namespaceMap, options, result, gatewayCalls>>

\* the groupBy check going on after an invalid value instead of aborting
ResolveGroupByDeferred ==
    /\ pc = "groupBy"
    /\ groupBy' = IF groupBy = "" THEN defaultGroupBy ELSE groupBy
    /\ Goto("includeIstio")
    /\ UNCHANGED <<req, gateway, duration, graphType, includeIstio, injectServiceNodes,
                   queryTime, vendor, token, accessibleNamespaces, namespaces,
                   pending, namespaceMap, options, result, gatewayCalls>>

\* lines 110-114
ResolveGroupBy ==
    /\ pc = "groupBy"
    /\ IF groupBy = ""
       THEN groupBy' = defaultGroupBy /\ Goto("includeIstio")
       ELSE IF InvalidGroupBy(groupBy)
            THEN Panic(BadRequestCode, "Invalid groupBy", groupBy) /\ UNCHANGED groupBy
            ELSE UNCHANGED groupBy /\ Goto("includeIstio")
    /\ UNCHANGED <<req, gateway, duration, graphType, includeIstio, injectServiceNodes,
                   queryTime, vendor, token, accessibleNamespaces, namespaces,
                   pending, namespaceMap, options, result, gatewayCalls>>

\* lines 115-123
ResolveIncludeIstio ==
    /\ pc = "includeIstio"
    /\ IF req.includeIstio = ""
       THEN includeIstio' = defaultIncludeIstio /\ Goto("injectServiceNodes")
       ELSE LET r == ParseBool(req.includeIstio)
            IN  IF r.ok
                THEN includeIstio' = r.val /\ Goto("injectServiceNodes")
                ELSE /\ Panic(BadRequestCode, "Invalid includeIstio", req.includeIstio)
                     /\ UNCHANGED includeIstio
    /\ UNCHANGED <<req, gateway, duration, graphType, groupBy, injectServiceNodes,
                   queryTime, vendor, token, accessibleNamespaces, namespaces,
                   pending, namespaceMap, options, result, gatewayCalls>>

\* lines 124-132
ResolveInjectServiceNodes ==
    /\ pc = "injectServiceNodes"
    /\ IF req.injectServiceNodes = ""
       THEN injectServiceNodes' = defaultInjectServiceNodes /\ Goto("queryTime")
       ELSE LET r == ParseBool(req.injectServiceNodes)
            IN  IF r.ok
                THEN injectServiceNodes' = r.val /\ Goto("queryTime")
                ELSE /\ Panic(BadRequestCode, "Invalid injectServiceNodes",
                              req.injectServiceNodes)
                     /\ UNCHANGED injectServiceNodes
    /\ UNCHANGED <<req, gateway, duration, graphType, groupBy, includeIstio,
                   queryTime, vendor, token, accessibleNamespaces, namespaces,
                   pending, namespaceMap, options, result, gatewayCalls>>

\* lines 133-141
ResolveQueryTime ==
    /\ pc = "queryTime"
    /\ IF req.queryTime = ""
       THEN queryTime' = Now /\ Goto("vendor")
       ELSE LET r == ParseInt(req.queryTime)
            IN  IF r.ok
                THEN queryTime' = r.val /\ Goto("vendor")
                ELSE /\ Panic(BadRequestCode, "Invalid queryTime", req.queryTime)
                     /\ UNCHANGED queryTime
    /\ UNCHANGED <<req, gateway, duration, graphType, groupBy, includeIstio,
                   injectServiceNodes, vendor, token, accessibleNamespaces, namespaces,
                   pending, namespaceMap, options, result, gatewayCalls>>

\* lines 142-146
ResolveVendor ==
    /\ pc = "vendor"
    /\ IF vendor = ""
       THEN vendor' = defaultVendor /\ Goto("token")
       ELSE IF InvalidVendor(vendor)
            THEN Panic(BadRequestCode, "Invalid vendor", vendor) /\ UNCHANGED vendor
            ELSE UNCHANGED vendor /\ Goto("token")
    /\ UNCHANGED <<req, gateway, duration, graphType, groupBy, includeIstio,
                   injectServiceNodes, queryTime, token, accessibleNamespaces,
                   namespaces, pending, namespaceMap, options, result, gatewayCalls>>

\* the token check reporting the fault without aborting: resolution goes on
\* to the gateway with the empty token
ReadTokenLenient ==
    /\ pc = "token"
    /\ token' = IF req.token.kind = "string" THEN req.token.val ELSE ""
    /\ Goto("gateway")
    /\ UNCHANGED <<req, gateway, duration, graphType, groupBy, includeIstio,
                   injectServiceNodes, queryTime, vendor, accessibleNamespaces,
                   namespaces, pending, namespaceMap, options, result, gatewayCalls>>

\* lines 151-161
ReadToken ==
    /\ pc = "token"
    /\ IF req.token.kind # "nil"
       THEN IF req.token.kind # "string"
            THEN /\ Panic(InternalCode, "token is not of type string", "")
                 /\ UNCHANGED token
            ELSE token' = req.token.val /\ Goto("gateway")
       ELSE /\ Panic(InternalCode, "token missing in request context", "")
            /\ UNCHANGED token
    /\ UNCHANGED <<req, gateway, duration, graphType, groupBy, includeIstio,
                   injectServiceNodes, queryTime, vendor, accessibleNamespaces,
                   namespaces, pending, namespaceMap, options, result, gatewayCalls>>

\* line 163 and getAccessibleNamespaces (lines 331-346)
getAccessibleNamespaces ==
    /\ pc = "gateway"
    /\ gatewayCalls' = gatewayCalls + 1
    /\ IF gateway.error # "none"
       THEN Panic(InternalCode, gateway.error, "") /\ UNCHANGED accessibleNamespaces
       ELSE accessibleNamespaces' = gateway.namespaces /\ Goto("namespaces")
    /\ UNCHANGED <<req, gateway, duration, graphType, groupBy, includeIstio,
                   injectServiceNodes, queryTime, vendor, token, namespaces,
                   pending, namespaceMap, options, result>>

\* lines 165-176: choose the csl, require it, split it
SelectNamespaces ==
    /\ pc = "namespaces"
    /\ namespaces' = RelevantNamespaces(req, namespaces)
    /\ IF NoNamespace(namespaces')
       THEN /\ Panic(BadRequestCode, "At least one namespace must be specified", "")
            /\ UNCHANGED pending
       ELSE pending' = Split(namespaces') /\ Goto("lookup")
    /\ UNCHANGED <<req, gateway, duration, graphType, groupBy, includeIstio,
                   injectServiceNodes, queryTime, vendor, token, accessibleNamespaces,
                   namespaceMap, options, result, gatewayCalls>>

\* the range loop dropping an inaccessible namespace instead of failing
LookupNamespaceDropping ==
    /\ pc = "lookup"
    /\ pending # << >>
    /\ LET namespaceToken == Join(TrimSpace(Head(pending)))
       IN  namespaceMap' =
               IF namespaceToken \in DOMAIN accessibleNamespaces
               THEN MapPut(namespaceMap, namespaceToken,
                           [Name |-> namespaceToken,
                            Duration |-> resolveNamespaceDuration(
                                accessibleNamespaces[namespaceToken], duration, queryTime)])
               ELSE namespaceMap
    /\ pending' = Tail(pending)
    /\ pc' = IF Tail(pending) = << >> THEN "build" ELSE "lookup"
    /\ UNCHANGED <<req, gateway, duration, graphType, groupBy, includeIstio,
                   injectServiceNodes, queryTime, vendor, token, accessibleNamespaces,
                   namespaces, options, result, err, gatewayCalls>>

\* lines 176-186: one iteration of the range loop
LookupNamespace ==
    /\ pc = "lookup"
    /\ pending # << >>
    /\ LET namespaceToken == NamespaceToken(Head(pending))
       IN  IF Found(accessibleNamespaces, namespaceToken)
           THEN /\ namespaceMap' =
                       MapPut(namespaceMap, namespaceToken,
                              NamespaceInfo(accessibleNamespaces, namespaceToken,
                                            duration, queryTime))
                /\ pending' = Tail(pending)
                /\ Goto(IF Tail(pending) = << >> THEN "build" ELSE "lookup")
           ELSE /\ Panic(ForbiddenCode, "Requested namespace is not accessible",
                         namespaceToken)
                /\ UNCHANGED <<namespaceMap, pending>>
    /\ UNCHANGED <<req, gateway, duration, graphType, groupBy, includeIstio,
                   injectServiceNodes, queryTime, vendor, token, accessibleNamespaces,
                   namespaces, options, result, gatewayCalls>>

\* lines 188-212
Build ==
    /\ pc = "build"
    /\ injectServiceNodes' = ServiceInjection(graphType, injectServiceNodes)
    /\ options' = BuildOptions(req)
    /\ Goto("appenders")
    /\ UNCHANGED <<req, gateway, duration, graphType, groupBy, includeIstio,
                   queryTime, vendor, token, accessibleNamespaces, namespaces,
                   pending, namespaceMap, result, gatewayCalls>>

\* lines 214-217
AppendAndReturn ==
    /\ pc = "appenders"
    /\ LET r == parseAppenders(req, options)
       IN  IF r.ok
           THEN /\ options' = [options EXCEPT !.Appenders = r.appenders]
                /\ result' = options'
                /\ Goto("done")
           ELSE /\ Panic(BadRequestCode, "Invalid appender", r.invalid)
                /\ UNCHANGED <<options, result>>
    /\ UNCHANGED <<req, gateway, duration, graphType, groupBy, includeIstio,
                   injectServiceNodes, queryTime, vendor, token, accessibleNamespaces,
                   namespaces, pending, namespaceMap, gatewayCalls>>

Next ==
    \/ ResolveDuration
    \/ ResolveGraphType
    \/ CheckNodeGraphType
    \/ ResolveGroupBy
    \/ ResolveIncludeIstio
    \/ ResolveInjectServiceNodes
    \/ ResolveQueryTime
    \/ ResolveVendor
    \/ ReadToken
    \/ getAccessibleNamespaces
    \/ SelectNamespaces
    \/ LookupNamespace
    \/ Build
    \/ AppendAndReturn

-----------------------------------------------------------------------------
(* The requests and gateway answers of the model *)

\* the caller may access four namespaces: bookinfo (created 5 minutes ago),
\* default (creation time unset), istio-system (created at the epoch) and
\* future (created 3 minutes from now); hidden is not accessible
CallerNamespaces ==
    [n \in {"bookinfo", "default", "istio-system", "future"} |->
        CASE n = "bookinfo" -> Now - 5
          [] n = "default" -> ZeroTime
          [] n = "istio-system" -> 0
          [] n = "future" -> Now + 3]

GatewayOk == [error |-> "none", namespaces |-> CallerNamespaces]

Absent == [present |-> FALSE, value |-> << >>]
AbsentText == [present |-> FALSE, value |-> ""]
Given(v) == [present |-> TRUE, value |-> v]

\* GET /namespaces/graph?namespaces=bookinfo
NamespaceGraphRequest ==
    [app |-> "", namespace |-> << >>, service |-> "", version |-> "", workload |-> "",
     duration |-> "", graphType |-> "", groupBy |-> "", includeIstio |-> "",
     injectServiceNodes |-> "", namespaces |-> <<"bookinfo">>, queryTime |-> "",
     vendor |-> "", appenders |-> Absent, responseTimeQuantile |-> AbsentText,
     token |-> [kind |-> "string", val |-> "caller-token"],
     gateway |-> GatewayOk]

\* GET /namespaces/bookinfo/applications/reviews/graph?graphType=app
AppGraphRequest ==
    [NamespaceGraphRequest EXCEPT !.app = "reviews", !.namespace = <<"bookinfo">>,
                                  !.namespaces = << >>, !.graphType = GraphTypeApp]

\* GET /namespaces/bookinfo/services/reviews/graph
ServiceGraphRequest ==
    [NamespaceGraphRequest EXCEPT !.service = "reviews", !.namespace = <<"bookinfo">>,
                                  !.namespaces = << >>]

Baselines == {NamespaceGraphRequest, AppGraphRequest, ServiceGraphRequest}

Params == DOMAIN NamespaceGraphRequest

\* the values each input takes in the model
Values(p) ==
    CASE p = "app" -> <<"", "reviews">>
      [] p = "namespace" -> <<<< >>, <<"bookinfo">>, <<"hidden">>>>
      [] p = "service" -> <<"", "reviews">>
      [] p = "version" -> <<"", "v1">>
      [] p = "workload" -> <<"", "reviews-v1">>
      [] p = "duration" -> <<"", "3m", "1h", "soon">>
      [] p = "graphType" -> <<"", GraphTypeApp, GraphTypeService, GraphTypeVersionedApp,
                             GraphTypeWorkload, "bogus">>
      [] p = "groupBy" -> <<"", GroupByApp, GroupByNone, GroupByVersion, "bogus">>
      [] p = "includeIstio" -> <<"", "true", "yes">>
      [] p = "injectServiceNodes" -> <<"", "true", "false", "yes">>
      [] p = "namespaces" -> <<<< >>, <<"bookinfo">>, <<"hidden">>,
                              <<"default", Comma, Blank, "future">>,
                              <<"bookinfo", Comma, "hidden">>>>
      [] p = "queryTime" -> <<"", "0", "17", "-5", "noon">>
      [] p = "vendor" -> <<"", VendorCytoscape, "bogus">>
      [] p = "appenders" -> <<Absent, Given(<< >>), Given(<<Blank>>),
                             Given(<<SidecarsCheckAppenderName, Comma,
                                     ServiceEntryAppenderName>>),
                             Given(<<ResponseTimeAppenderName, Comma,
                                     UnusedNodeAppenderName, Comma,
                                     SecurityPolicyAppenderName>>),
                             Given(<<"bogus">>)>>
      [] p = "responseTimeQuantile" -> <<AbsentText, Given("0.5"), Given("fast"), Given("")>>
      [] p = "token" -> <<[kind |-> "string", val |-> "caller-token"],
                         [kind |-> "nil", val |-> ""],
                         [kind |-> "int", val |-> ""]>>
      [] p = "gateway" -> <<GatewayOk,
                           [error |-> "business.Get", namespaces |-> EmptyMap],
                           [error |-> "GetNamespaces", namespaces |-> EmptyMap],
                           [error |-> "none", namespaces |-> EmptyMap]>>

\* one deviation <<p, i>>: input p takes its i-th value
Deviations == UNION {{<<p, i>> : i \in 1..Len(Values(p))} : p \in Params}

\* scenario s after the deviations of d, applied in order
RECURSIVE Deviate(_, _)
Deviate(s, d) ==
    IF d = << >> THEN s
    ELSE Deviate([s EXCEPT ![Head(d)[1]] = Values(Head(d)[1])[Head(d)[2]]], Tail(d))

\* every text of at most n lexemes of L
Texts(L, n) == UNION {[1..k -> L] : k \in 0..n}

AppenderLexemes == KnownAppenderNames \cup {"bogus", Blank, Comma}
NamespaceLexemes == {"bookinfo", "default", "future", "hidden", Blank, Comma}

\* the namespace graph request with every appenders text
AppenderTextScenarios ==
    {[NamespaceGraphRequest EXCEPT !.appenders = Given(t)] :
        t \in Texts(AppenderLexemes, MaxLen)}

\* the namespace graph request with every namespaces text
NamespaceTextScenarios ==
    {[NamespaceGraphRequest EXCEPT !.namespaces = t] :
        t \in Texts(NamespaceLexemes, MaxLen)}

\* the names of ns separated by commas
RECURSIVE CommaList(_)
CommaList(ns) ==
    IF Len(ns) <= 1 THEN ns ELSE <<Head(ns), Comma>> \o CommaList(Tail(ns))

\* the namespace graph request with every list of at most MaxNames appender names
AppenderListScenarios ==
    {[NamespaceGraphRequest EXCEPT !.appenders = Given(CommaList(ns))] :
        ns \in UNION {[1..k -> KnownAppenderNames] : k \in 1..MaxNames}}

RequestOf(s) == [p \in Params \ {"gateway"} |-> s[p]]

Init ==
    /\ \/ \* a baseline request with at most MaxDeviations inputs changed
          \E b \in Baselines : \E d \in [1..MaxDeviations -> Deviations] :
             LET s == Deviate(b, d)
             IN  req = RequestOf(s) /\ gateway = s.gateway
       \/ \E s \in AppenderTextScenarios \cup AppenderListScenarios
                                             \cup NamespaceTextScenarios :
             req = RequestOf(s) /\ gateway = s.gateway
    /\ pc = "duration"
    /\ duration = 0
    /\ graphType = req.graphType
    /\ groupBy = req.groupBy
    /\ includeIstio = FALSE
    /\ injectServiceNodes = FALSE
    /\ queryTime = 0
    /\ vendor = req.vendor
    /\ token = ""
    /\ accessibleNamespaces = EmptyMap
    /\ namespaces = req.namespaces
    /\ pending = << >>
    /\ namespaceMap = EmptyMap
    /\ options = NoOptions
    /\ result = NoOptions
    /\ err = NoError
    /\ gatewayCalls = 0

Spec == Init /\ [][Next]_vars

-----------------------------------------------------------------------------
(* resolveNamespaceDuration on its own: every creation time, requested     *)
(* range and query time of a bounded grid around Now                       *)

Instants == (Now - MaxSpan)..(Now + MaxSpan)

InitDuration ==
    /\ req \in [nsCreationTime : Instants \cup {ZeroTime},
                requestedRange : (-2)..(MaxSpan + 2),
                queryTime : Instants \cup {0, -1}]
    /\ gateway = GatewayOk
    /\ pc = "resolve"
    /\ duration = 0
    /\ graphType = ""
    /\ groupBy = ""
    /\ includeIstio = FALSE
    /\ injectServiceNodes = FALSE
    /\ queryTime = 0
    /\ vendor = ""
    /\ token = ""
    /\ accessibleNamespaces = EmptyMap
    /\ namespaces = << >>
    /\ pending = << >>
    /\ namespaceMap = EmptyMap
    /\ options = NoOptions
    /\ result = NoOptions
    /\ err = NoError
    /\ gatewayCalls = 0

ApplyResolveNamespaceDuration ==
    /\ pc = "resolve"
    /\ result' = [set |-> TRUE,
                  resolvedBound |->
                      resolveNamespaceDuration(req.nsCreationTime, req.requestedRange,
                                               req.queryTime)]
    /\ pc' = "resolved"
    /\ UNCHANGED <<req, gateway, duration, graphType, groupBy, includeIstio,
                   injectServiceNodes, queryTime, vendor, token, accessibleNamespaces,
                   namespaces, pending, namespaceMap, options, err, gatewayCalls>>

SpecDuration == InitDuration /\ [][ApplyResolveNamespaceDuration]_vars

-----------------------------------------------------------------------------
(* Vocabulary of the properties *)

Done == pc = "done"
Panicked == pc = "panicked"
Finished == Done \/ Panicked

\* the stages of the table of known stages, in table order
FixedOrder ==
    <<ServiceEntryAppenderName, DeadNodeAppenderName, ResponseTimeAppenderName,
      SecurityPolicyAppenderName, UnusedNodeAppenderName, IstioAppenderName,
      SidecarsCheckAppenderName>>

\* the subsequence of seq whose elements are in S
RECURSIVE Filter(_, _)
Filter(seq, S) ==
    IF seq = << >> THEN << >>
    ELSE (IF Head(seq) \in S THEN <<Head(seq)>> ELSE << >>) \o Filter(Tail(seq), S)

\* the stage names of a pipeline, in order
StageNames(pipeline) == [i \in 1..Len(pipeline) |-> pipeline[i].name]

\* the trimmed tokens of a comma-separated text, as a set of Go strings
TokenSet(text) == {Join(TrimSpace(Split(text)[i])) : i \in 1..Len(Split(text))}

\* the namespace list the request asks for: the path variable if set
RequestedNamespaces == IF req.namespace # << >> THEN req.namespace ELSE req.namespaces

\* graphType after defaulting
EffectiveGraphType == IF req.graphType = "" THEN GraphTypeWorkload ELSE req.graphType

Min(a, b) == IF a <= b THEN a ELSE b

\* the stage of the pipeline with the given name (the pipeline has it)
Stage(pipeline, name) ==
    pipeline[CHOOSE i \in 1..Len(pipeline) : pipeline[i].name = name]

HasStage(pipeline, name) == \E i \in 1..Len(pipeline) : pipeline[i].name = name

-----------------------------------------------------------------------------
(* C1.  Whatever the order and repetition of the recognized names in the   *)
(* appenders parameter, the returned pipeline is the table order           *)
(* ServiceEntry, DeadNode, ResponseTime, SecurityPolicy, UnusedNode,       *)
(* Istio, SidecarsCheck filtered to the set of names requested, each stage *)
(* at most once: the pipeline depends on the set of names only.            *)
C1_FixedOrder ==
    (Done /\ req.appenders.present) =>
        StageNames(result.Appenders) = Filter(FixedOrder, TokenSet(req.appenders.value))

\* "sidecarsCheck,serviceEntry" has yielded [ServiceEntry, SidecarsCheck]
C1_Witness ==
    /\ Done
    /\ req.appenders = Given(<<SidecarsCheckAppenderName, Comma, ServiceEntryAppenderName>>)
    /\ StageNames(result.Appenders) = <<ServiceEntryAppenderName, SidecarsCheckAppenderName>>

(* C2.  Without an appenders parameter the returned pipeline is the seven  *)
(* known stages in table order.  With the parameter present and only blank *)
(* tokens ("" or " "), parseAppenders raises no error (once the descriptor *)
(* fields are assembled, NewOptions returns) and the returned pipeline is  *)
(* empty.                                                                  *)
C2_AbsentAllBlankNone ==
    /\ (Done /\ ~req.appenders.present) => StageNames(result.Appenders) = FixedOrder
    /\ (Finished /\ req.appenders.present /\ TokenSet(req.appenders.value) = {""}) =>
          /\ err.message # "Invalid appender"
          /\ options # NoOptions => Done
          /\ Done => result.Appenders = << >>

\* appenders=" " has yielded an empty pipeline
C2_Witness ==
    /\ Done
    /\ req.appenders = Given(<<Blank>>)
    /\ result.Appenders = << >>

(* C3.  A request whose namespace list has a trimmed token that is no key  *)
(* of the caller's accessible namespaces never returns a descriptor; when  *)
(* resolution gets as far as the namespace lookup (the gateway answered    *)
(* and a list is given) it ends with Forbidden naming an inaccessible      *)
(* token, even when other tokens are accessible.                           *)
C3_InaccessibleForbidden ==
    (Finished /\ \E t \in TokenSet(RequestedNamespaces) : t \notin DOMAIN gateway.namespaces) =>
        /\ Panicked
        /\ result = NoOptions
        /\ (gatewayCalls = 1 /\ gateway.error = "none" /\ RequestedNamespaces # << >>) =>
              /\ err.code = ForbiddenCode
              /\ err.arg \in TokenSet(RequestedNamespaces) \ DOMAIN gateway.namespaces

\* "bookinfo,hidden" has ended with Forbidden for hidden after bookinfo was accepted
C3_Witness ==
    /\ Panicked
    /\ req.namespaces = <<"bookinfo", Comma, "hidden">>
    /\ req.namespace = << >>
    /\ "bookinfo" \in DOMAIN namespaceMap
    /\ err.code = ForbiddenCode
    /\ err.arg = "hidden"

(* C4.  Every returned descriptor has at least one target namespace; a     *)
(* request with neither a namespace path variable nor a namespaces         *)
(* parameter returns nothing, and ends with BadRequest whenever the token  *)
(* is present and the gateway answers.                                     *)
C4_NamespacesNonEmpty ==
    /\ Done => DOMAIN result.Namespaces # {}
    /\ (Finished /\ req.namespace = << >> /\ req.namespaces = << >>) =>
          /\ Panicked
          /\ result = NoOptions
          /\ (req.token.kind = "string" /\ gateway.error = "none") =>
                err.code = BadRequestCode

\* a request without any namespace has ended with the BadRequest of line 173
C4_Witness ==
    /\ Panicked
    /\ req.namespace = << >>
    /\ req.namespaces = << >>
    /\ gatewayCalls = 1
    /\ err.code = BadRequestCode
    /\ err.message = "At least one namespace must be specified"

(* C5.  resolveNamespaceDuration(nsCreated, d, queryTime): d unchanged     *)
(* when nsCreated is the zero time; otherwise min(d, lifetime) with        *)
(* lifetime = ref - nsCreated and ref = queryTime, or now when queryTime   *)
(* is 0; so the result never exceeds d and is negative when lifetime is.   *)
C5_Clamp ==
    pc = "resolved" =>
        LET d == req.requestedRange
            ref == IF req.queryTime = 0 THEN Now ELSE req.queryTime
            lifetime == ref - req.nsCreationTime
            res == result.resolvedBound
        IN  /\ req.nsCreationTime = ZeroTime => res = d
            /\ req.nsCreationTime # ZeroTime =>
                  /\ res = Min(d, lifetime)
                  /\ res <= d
                  /\ lifetime < 0 => res < 0

\* a namespace created after the reference instant has got a negative window
C5_Witness ==
    /\ pc = "resolved"
    /\ req.nsCreationTime # ZeroTime
    /\ req.queryTime # 0
    /\ req.queryTime < req.nsCreationTime
    /\ req.requestedRange > 0
    /\ result.resolvedBound = req.queryTime - req.nsCreationTime

(* C6.  Every returned descriptor with graphType = service has            *)
(* InjectServiceNodes = TRUE, whatever the client passed for               *)
(* injectServiceNodes, and its ResponseTime and SecurityPolicy stages      *)
(* carry the same value.                                                   *)
C6_ServiceInjects ==
    (Done /\ result.GraphType = GraphTypeService) =>
        /\ result.InjectServiceNodes = TRUE
        /\ \A i \in 1..Len(result.Appenders) :
              result.Appenders[i].name \in
                  {ResponseTimeAppenderName, SecurityPolicyAppenderName} =>
                      result.Appenders[i].InjectServiceNodes = TRUE

\* graphType=service&injectServiceNodes=false has returned with the flag forced
C6_Witness ==
    /\ Done
    /\ req.graphType = GraphTypeService
    /\ req.injectServiceNodes = "false"
    /\ result.InjectServiceNodes = TRUE
    /\ HasStage(result.Appenders, ResponseTimeAppenderName)
    /\ Stage(result.Appenders, ResponseTimeAppenderName).InjectServiceNodes = TRUE
    /\ Stage(result.Appenders, SecurityPolicyAppenderName).InjectServiceNodes = TRUE

(* C7 as stated.  If any of the app, service, version or workload path     *)
(* variables is set and graphType after defaulting is neither app nor      *)
(* versionedApp, NewOptions ends with BadRequest: at the least, it ends    *)
(* with an error and returns no descriptor.                                *)
C7_AnySelectorRejected ==
    (/\ Finished
     /\ req.app # "" \/ req.service # "" \/ req.version # "" \/ req.workload # ""
     /\ EffectiveGraphType \notin {GraphTypeApp, GraphTypeVersionedApp}) =>
        Panicked /\ result = NoOptions

(* C7 amended.  If the app path variable is set and graphType after        *)
(* defaulting is neither app nor versionedApp, NewOptions ends with        *)
(* BadRequest; the node graph check fails for no request without app.      *)
C7_AppSelectorRejected ==
    /\ (Finished /\ req.app # ""
          /\ EffectiveGraphType \notin {GraphTypeApp, GraphTypeVersionedApp}) =>
             Panicked /\ err.code = BadRequestCode
    /\ err.message = "Invalid graphType for node graph" => req.app # ""

\* app=reviews with graphType=workload has been rejected by the node graph check
C7_Witness ==
    /\ Panicked
    /\ req.app = "reviews"
    /\ req.graphType = GraphTypeWorkload
    /\ err.code = BadRequestCode
    /\ err.message = "Invalid graphType for node graph"

\* app=reviews, namespace=bookinfo, graphType=service, nothing else set
AppServiceTypeRequest ==
    /\ req = RequestOf([AppGraphRequest EXCEPT !.graphType = GraphTypeService])
    /\ gateway = GatewayOk

\* service=reviews, namespace=bookinfo, graphType=service, nothing else set
ServiceServiceTypeRequest ==
    /\ req = RequestOf([ServiceGraphRequest EXCEPT !.graphType = GraphTypeService])
    /\ gateway = GatewayOk

\* a returned descriptor of a node-detail graph with forced service injection
NodeDetailWithInjection ==
    /\ Done
    /\ GetGraphKind(result) = graphKindNode
    /\ result.InjectServiceNodes = TRUE
    /\ HasStage(result.Appenders, UnusedNodeAppenderName)
    /\ Stage(result.Appenders, UnusedNodeAppenderName).IsNodeGraph = TRUE

(* C8 as stated.  The request app=reviews, namespace=bookinfo,             *)
(* graphType=service resolves to a node-detail descriptor with             *)
(* InjectServiceNodes = TRUE and an UnusedNode stage with IsNodeGraph.     *)
C8_AppServiceResolves ==
    (Finished /\ AppServiceTypeRequest) => NodeDetailWithInjection

(* C8 amended.  That request ends with the BadRequest of the node graph    *)
(* check and returns nothing; the service node request (service=reviews,   *)
(* namespace=bookinfo, graphType=service) resolves to a node-detail        *)
(* descriptor with InjectServiceNodes = TRUE and IsNodeGraph = TRUE.       *)
C8_AppRejectedServiceResolves ==
    /\ (Finished /\ AppServiceTypeRequest) =>
          /\ Panicked
          /\ result = NoOptions
          /\ err.code = BadRequestCode
          /\ err.message = "Invalid graphType for node graph"
    /\ (Finished /\ ServiceServiceTypeRequest) => NodeDetailWithInjection

\* the service node request has returned
C8_Witness ==
    /\ ServiceServiceTypeRequest
    /\ NodeDetailWithInjection
    /\ result.Namespace = "bookinfo"

\* namespaces=bookinfo and nothing else; bookinfo was created 5 minutes ago
BookinfoOnlyRequest ==
    /\ req = RequestOf(NamespaceGraphRequest)
    /\ gateway = GatewayOk
    /\ gateway.namespaces["bookinfo"] = Now - 5

(* C9 as stated.  The request namespaces=bookinfo yields a descriptor      *)
(* whose duration is 5 minutes, graphType workload, groupBy none and the   *)
(* seven appenders in table order.                                         *)
C9_DescriptorDurationClamped ==
    (Finished /\ BookinfoOnlyRequest) =>
        /\ Done
        /\ result.Duration = 5
        /\ result.GraphType = GraphTypeWorkload
        /\ result.GroupBy = GroupByNone
        /\ StageNames(result.Appenders) = FixedOrder

(* C9 amended.  The request yields a descriptor whose target namespace     *)
(* bookinfo has the window 5 minutes (clamped from the default); the       *)
(* descriptor's own Duration stays the 10-minute default; graphType is     *)
(* workload, groupBy none, and the pipeline the seven appenders in order.  *)
C9_NamespaceWindowClamped ==
    (Finished /\ BookinfoOnlyRequest) =>
        /\ Done
        /\ DOMAIN result.Namespaces = {"bookinfo"}
        /\ result.Namespaces["bookinfo"].Duration = 5
        /\ result.Duration = 10
        /\ result.GraphType = GraphTypeWorkload
        /\ result.GroupBy = GroupByNone
        /\ StageNames(result.Appenders) = FixedOrder

\* the request has returned with the clamped window
C9_Witness ==
    /\ Done
    /\ BookinfoOnlyRequest
    /\ result.Namespaces["bookinfo"] = [Name |-> "bookinfo", Duration |-> 5]
    /\ result.QueryTime = Now

(* C10.  With the appenders parameter supplied, a trimmed token that is    *)
(* neither empty nor a known stage name means no descriptor is returned,   *)
(* and once the descriptor fields are assembled the end is BadRequest      *)
(* naming such a token; empty tokens are ignored, and a returned pipeline  *)
(* holds exactly the named stages.                                         *)
C10_UnknownAppenderRejected ==
    /\ (/\ Finished
        /\ req.appenders.present
        /\ TokenSet(req.appenders.value) \ (KnownAppenderNames \cup {""}) # {}) =>
           /\ Panicked
           /\ result = NoOptions
           /\ options # NoOptions =>
                 /\ err.code = BadRequestCode
                 /\ err.message = "Invalid appender"
                 /\ err.arg \in TokenSet(req.appenders.value) \ (KnownAppenderNames \cup {""})
    /\ (Done /\ req.appenders.present) =>
           /\ TokenSet(req.appenders.value) \subseteq KnownAppenderNames \cup {""}
           /\ {result.Appenders[i].name : i \in 1..Len(result.Appenders)}
                 = TokenSet(req.appenders.value) \ {""}

\* "deadNode,bogus" has ended with BadRequest naming bogus
C10_Witness ==
    /\ Panicked
    /\ req.appenders = Given(<<DeadNodeAppenderName, Comma, "bogus">>)
    /\ err.code = BadRequestCode
    /\ err.arg = "bogus"

\* ---------------------------------------------------------------------
\* messages of the parameter checks of lines 92-146, in source order
ParameterFaults ==
    <<"Invalid duration", "Invalid graphType", "Invalid graphType for node graph",
      "Invalid groupBy", "Invalid includeIstio", "Invalid injectServiceNodes",
      "Invalid queryTime", "Invalid vendor">>

Range(seq) == {seq[i] : i \in DOMAIN seq}

\* a namespace lookup has started or is about to start
LookupStarted ==
    pc = "lookup" \/ pending # <<>> \/ namespaceMap # EmptyMap

\* C11: the Namespace Authorization Gateway is queried at most once per
\* resolution and that query has completed, successfully, before the first
\* requested namespace is looked up; a resolution whose request context holds
\* no token, or one that is not a string, ends in an error without a
\* descriptor and without any gateway query, and that error is Internal
\* unless a parameter check of lines 92-146 failed first; a resolution that
\* queried a failing gateway ends with an Internal error and no descriptor.
C11_GatewayOnceBeforeLookup ==
    /\ gatewayCalls <= 1
    /\ LookupStarted =>
         /\ gatewayCalls = 1
         /\ gateway.error = "none"
         /\ accessibleNamespaces = gateway.namespaces
    /\ (pc \in {"build", "appenders", "done"}) => gatewayCalls = 1
    /\ (Finished /\ req.token.kind # "string") =>
         /\ Panicked
         /\ result = NoOptions
         /\ gatewayCalls = 0
         /\ err.code = InternalCode \/ err.message \in Range(ParameterFaults)
         /\ err.code = InternalCode =>
              err.message = IF req.token.kind = "nil"
                            THEN "token missing in request context"
                            ELSE "token is not of type string"
    /\ (Finished /\ gateway.error # "none") =>
         /\ Panicked
         /\ result = NoOptions
         /\ gatewayCalls = 1 => err.code = InternalCode /\ err.message = gateway.error

\* a resolution stopped at the token check and one stopped by the gateway
C11_Witness ==
    /\ Panicked
    /\ req.token.kind = "nil"
    /\ err.code = InternalCode
    /\ err.message = "token missing in request context"
    /\ gatewayCalls = 0
    /\ result = NoOptions

\* ---------------------------------------------------------------------
\* every message NewOptions can fail with, in source order
AllFaults ==
    ParameterFaults \o
    <<"token is not of type string", "token missing in request context",
      "business.Get", "GetNamespaces",
      "At least one namespace must be specified",
      "Requested namespace is not accessible", "Invalid appender">>

\* the appenders parameter names a stage the switch of lines 237-256 rejects
UnknownAppenderRequested ==
    /\ req.appenders.present
    /\ \E name \in TokenSet(req.appenders.value) :
          name # "" /\ name \notin Range(FixedOrder)

\* the configuration of a stage as a function of the descriptor d and of the
\* quantile q alone
StageConfig(name, d, q) ==
    CASE name = ServiceEntryAppenderName ->
           [name |-> name, AccessibleNamespaces |-> d.AccessibleNamespaces]
      [] name = ResponseTimeAppenderName ->
           [name |-> name, Quantile |-> q, GraphType |-> d.GraphType,
            InjectServiceNodes |-> d.InjectServiceNodes,
            IncludeIstio |-> d.IncludeIstio, Namespaces |-> d.Namespaces,
            QueryTime |-> d.QueryTime]
      [] name = SecurityPolicyAppenderName ->
           [name |-> name, GraphType |-> d.GraphType,
            IncludeIstio |-> d.IncludeIstio,
            InjectServiceNodes |-> d.InjectServiceNodes,
            Namespaces |-> d.Namespaces, QueryTime |-> d.QueryTime]
      [] name = UnusedNodeAppenderName ->
           [name |-> name, GraphType |-> d.GraphType,
            \* the flag as line 308 computes it
            IsNodeGraph |-> (d.App # "" \/ d.Workload # "" \/ d.Service # "")]
      [] OTHER -> [name |-> name]

\* the quantile the request asks for: the number given, the default without one
RequestedQuantile ==
    IF /\ req.responseTimeQuantile.present
       /\ ParseFloat(req.responseTimeQuantile.value).ok
    THEN ParseFloat(req.responseTimeQuantile.value).val
    ELSE DefaultQuantile

\* C12: responseTimeQuantile never fails the request: no error is about it,
\* and once the descriptor fields are assembled the request fails only for an
\* unknown appender name.  In a returned descriptor the ResponseTime stage,
\* when selected, has the parsed quantile if the parameter is present and a
\* valid number and the default quantile otherwise; the selected stages are
\* the ones the appenders parameter alone determines, and every stage's
\* configuration is a function of its name, the descriptor fields and, for
\* ResponseTime only, the quantile.
C12_QuantileDefaultsNeverFails ==
    /\ Panicked => err.message \in Range(AllFaults)
    /\ (Finished /\ options # NoOptions) => (Done <=> ~UnknownAppenderRequested)
    /\ Done =>
         /\ StageNames(result.Appenders) =
               IF req.appenders.present
               THEN Filter(FixedOrder, TokenSet(req.appenders.value))
               ELSE FixedOrder
         /\ \A i \in 1..Len(result.Appenders) :
               result.Appenders[i] =
                   StageConfig(result.Appenders[i].name, result, RequestedQuantile)

\* responseTimeQuantile=fast has resolved with the default quantile, and
\* another stage beside ResponseTime is configured
C12_Witness ==
    /\ Done
    /\ req.responseTimeQuantile = Given("fast")
    /\ HasStage(result.Appenders, ResponseTimeAppenderName)
    /\ Stage(result.Appenders, ResponseTimeAppenderName).Quantile = DefaultQuantile
    /\ HasStage(result.Appenders, SecurityPolicyAppenderName)

\* ---------------------------------------------------------------------
\* the request sets at least one of the four node selectors
NodeSelectorSet ==
    req.app # "" \/ req.version # "" \/ req.workload # "" \/ req.service # ""

\* C13: GetGraphKind of a returned descriptor is node-detail exactly when
\* at least one of app, version, workload, service is non-empty, whatever
\* the namespace path variable; and the IsNodeGraph flag of the UnusedNode
\* stage of the descriptor is true exactly when GetGraphKind is node-detail.
\* Line 308 leaves the version selector out of hasNodeOptions, so a
\* descriptor with only version set is node-detail with IsNodeGraph false.
C13_IsNodeGraphAgreesWithKind ==
    Done =>
        /\ GetGraphKind(result) = graphKindNode <=> NodeSelectorSet
        /\ GetGraphKind(result) \in {graphKindNode, graphKindNamespace}
        /\ HasStage(result.Appenders, UnusedNodeAppenderName) =>
              (Stage(result.Appenders, UnusedNodeAppenderName).IsNodeGraph
                 <=> GetGraphKind(result) = graphKindNode)

\* ---------------------------------------------------------------------
\* the trimmed tokens of the requested namespace list, in order
NamespaceTokens ==
    [i \in 1..Len(Split(RequestedNamespaces)) |->
        Join(TrimSpace(Split(RequestedNamespaces)[i]))]

\* the first requested namespace the caller may not see ("" when all are seen)
FirstInaccessible ==
    LET bad == {i \in DOMAIN NamespaceTokens :
                   NamespaceTokens[i] \notin DOMAIN gateway.namespaces}
    IN  IF bad = {} THEN ""
        ELSE NamespaceTokens[CHOOSE i \in bad : \A j \in bad : i <= j]

\* the faults a request can carry, in the order of section 7: whether the
\* request carries it, and the error it is reported with
Faults ==
    << [carried |-> req.duration # "" /\ ~ParseDuration(req.duration).ok,
        code |-> BadRequestCode, message |-> "Invalid duration"],
       [carried |-> req.graphType \notin {"", GraphTypeApp, GraphTypeService,
                                          GraphTypeVersionedApp, GraphTypeWorkload},
        code |-> BadRequestCode, message |-> "Invalid graphType"],
       [carried |-> req.app # "" /\ EffectiveGraphType \notin
                                      {GraphTypeApp, GraphTypeVersionedApp},
        code |-> BadRequestCode, message |-> "Invalid graphType for node graph"],
       [carried |-> req.groupBy \notin {"", GroupByApp, GroupByNone, GroupByVersion},
        code |-> BadRequestCode, message |-> "Invalid groupBy"],
       [carried |-> req.includeIstio # "" /\ ~ParseBool(req.includeIstio).ok,
        code |-> BadRequestCode, message |-> "Invalid includeIstio"],
       [carried |-> req.injectServiceNodes # "" /\ ~ParseBool(req.injectServiceNodes).ok,
        code |-> BadRequestCode, message |-> "Invalid injectServiceNodes"],
       [carried |-> req.queryTime # "" /\ ~ParseInt(req.queryTime).ok,
        code |-> BadRequestCode, message |-> "Invalid queryTime"],
       [carried |-> req.vendor \notin {"", VendorCytoscape},
        code |-> BadRequestCode, message |-> "Invalid vendor"],
       [carried |-> req.token.kind # "string",
        code |-> InternalCode,
        message |-> IF req.token.kind = "nil"
                    THEN "token missing in request context"
                    ELSE "token is not of type string"],
       [carried |-> gateway.error # "none",
        code |-> InternalCode, message |-> gateway.error],
       [carried |-> RequestedNamespaces = << >>,
        code |-> BadRequestCode,
        message |-> "At least one namespace must be specified"],
       [carried |-> \E i \in DOMAIN NamespaceTokens :
                        NamespaceTokens[i] \notin DOMAIN gateway.namespaces,
        code |-> ForbiddenCode, message |-> "Requested namespace is not accessible"],
       [carried |-> UnknownAppenderRequested,
        code |-> BadRequestCode, message |-> "Invalid appender"] >>

\* the faults the request carries, and the earliest of them (0 without one)
Carried == LET faults == Faults IN {i \in DOMAIN faults : faults[i].carried}

EarliestFault == IF Carried = {} THEN 0 ELSE CHOOSE i \in Carried : \A j \in Carried : i <= j

\* the fault is one of a check ahead of line 163: a parameter or the token
AheadOfGateway(i) == i <= Len(ParameterFaults) + 1

\* C14: resolution is fail-fast with a fixed precedence.  No error is
\* recorded while resolution runs; a request without a fault returns a
\* descriptor and no error; a request carrying one or more faults ends with
\* exactly the error of the earliest fault in the order duration, graphType,
\* graphType/node-selector, groupBy, includeIstio, injectServiceNodes,
\* queryTime, vendor (BadRequest), token, gateway (Internal), missing
\* namespaces (BadRequest), inaccessible namespace (Forbidden, naming the
\* first inaccessible one), unknown appender (BadRequest), and returns no
\* descriptor; the gateway is queried only if the earliest fault is past
\* the token check.
C14_FailFastPrecedence ==
    /\ ~Panicked => err = NoError
    /\ ~Done => result = NoOptions
    /\ Finished =>
         LET first == EarliestFault
             fault == Faults[first]
         IN  IF first = 0
             THEN Done /\ result # NoOptions /\ err = NoError
             ELSE /\ Panicked
                  /\ result = NoOptions
                  /\ err.code = fault.code
                  /\ err.message = fault.message
                  /\ gatewayCalls = IF AheadOfGateway(first) THEN 0 ELSE 1
                  /\ err.code = ForbiddenCode => err.arg = FirstInaccessible

\* an invalid duration together with an inaccessible namespace has ended
\* with BadRequest and the gateway not queried
C14_Witness ==
    /\ Panicked
    /\ req.duration = "soon"
    /\ FirstInaccessible = "hidden"
    /\ Cardinality(Carried) >= 2
    /\ err.code = BadRequestCode
    /\ err.message = "Invalid duration"
    /\ gatewayCalls = 0
    /\ result = NoOptions

\* ---------------------------------------------------------------------
\* C15: in every returned descriptor the AccessibleNamespaces map is the
\* gateway's answer, and the keys of the target-namespace map are exactly
\* the whitespace-trimmed tokens of the requested list (the namespace path
\* variable if set, else the namespaces parameter), so duplicate tokens
\* make one entry; each key is a key of AccessibleNamespaces and the Name of
\* its entry, and its entry's Duration is at most the descriptor's Duration.
C15_TargetNamespaces ==
    Done =>
        /\ result.AccessibleNamespaces = gateway.namespaces
        /\ DOMAIN result.Namespaces = Range(NamespaceTokens)
        /\ DOMAIN result.Namespaces = TokenSet(RequestedNamespaces)
        /\ req.namespace # << >> => DOMAIN result.Namespaces = TokenSet(req.namespace)
        /\ req.namespace = << >> => DOMAIN result.Namespaces = TokenSet(req.namespaces)
        /\ \A name \in DOMAIN result.Namespaces :
              /\ name \in DOMAIN result.AccessibleNamespaces
              /\ result.Namespaces[name].Name = name
              /\ result.Namespaces[name].Duration <= result.Duration

\* namespaces="bookinfo,bookinfo" has resolved to the single entry bookinfo,
\* whose window is shorter than the requested one
C15_Witness ==
    /\ Done
    /\ req.namespace = << >>
    /\ req.namespaces = <<"bookinfo", Comma, "bookinfo">>
    /\ DOMAIN result.Namespaces = {"bookinfo"}
    /\ result.Namespaces["bookinfo"].Duration < result.Duration

====
